---- MODULE Spec2Model ----
(***************************************************************************)
(* Model of the bill_compare repository:                                   *)
(*   src/my_finance_mcp_server.py  the Tool Server (two registered tools)  *)
(*   src/compare.py                the Reconciliation Client (one run per  *)
(*                                 process: credential check, console      *)
(*                                 capture, tool discovery, agent run)     *)
(*                                                                         *)
(* Conventions.  A Python str that the code inspects character by          *)
(* character (the currency code) is a sequence of one-character strings.   *)
(* A float rate is counted in tenths (7.2 is 72, 1.0 is 10).  A console    *)
(* message is one write() call's text.  The clock counts seconds; a log    *)
(* file is named by what strftime("%Y%m%d_%H%M") keeps of it, the minute.  *)
(***************************************************************************)
EXTENDS Integers, Sequences, FiniteSets, TLC

VARIABLES
  pc,          \* position of the client process ("off": no process running)
  api_key,     \* compare.py:15  module global api_key
  clock,       \* wall clock, in seconds
  runs,        \* number of client processes launched so far
  sys_stdout,  \* the global output sink sys.stdout of the client process
  logger,      \* the Logger instance: [terminal, log]
  files,       \* the file system: log file name -> [open, content, opens]
  terminal,    \* messages the original destination (the console) received
  stderr,      \* what the interpreter printed to the error stream
  exc,         \* the exception in flight, or NoExc
  server,      \* the Tool Server subprocess: "absent" or "running"
  registry,    \* tools registered in the Tool Server (FastMCP), in order
  mcp_tools,   \* compare.py:63
  local_tools, \* compare.py:86
  agent,       \* compare.py:106  the FunctionAgent
  response,    \* compare.py:124
  verbose_n,   \* number of verbose messages the agent loop has printed
  trace,       \* history: the steps this client process has taken, in order
  runlog,      \* history: per finished capture, the file and its transcript
  call,        \* Tool Server: the request being served and its reply
  served       \* Tool Server: number of requests answered

vars == <<pc, api_key, clock, runs, sys_stdout, logger, files, terminal, stderr,
          exc, server, registry, mcp_tools, local_tools, agent, response,
          verbose_n, trace, runlog, call, served>>

clientVars == <<pc, api_key, clock, runs, sys_stdout, logger, files, terminal,
                stderr, exc, mcp_tools, local_tools, agent, response,
                verbose_n, trace, runlog>>

(***************************************************************************)
(* Bounds of the model.                                                    *)
(***************************************************************************)
\* client processes launched one after the other
MaxRuns == 2
\* messages the agent loop prints while the run request is awaited
MaxVerbose == 1
\* length of a currency string
MaxCurLen == 3
\* requests one Tool Server process answers
MaxCalls == 2
\* amounts tried on each side of the fee threshold
AmountSpan == 20

Range(s) == {s[i] : i \in DOMAIN s}

Count(s, e) == Cardinality({i \in DOMAIN s : s[i] = e})

(***************************************************************************)
(* Tool Server: src/my_finance_mcp_server.py                               *)
(***************************************************************************)
Chars == {"u", "s", "d", "e", "r", "g", "b", "p",
          "U", "S", "D", "E", "R", "G", "B", "P"}

\* str.upper() on one character: a lower-case letter maps to its capital,
\* every other character is kept.
UpperChar(c) ==
  CASE c = "u" -> "U"
    [] c = "s" -> "S"
    [] c = "d" -> "D"
    [] c = "e" -> "E"
    [] c = "r" -> "R"
    [] c = "g" -> "G"
    [] c = "b" -> "B"
    [] c = "p" -> "P"
    [] OTHER -> c

\* str.upper()
upper(s) == [i \in 1..Len(s) |-> UpperChar(s[i])]

\* rates = {"USD": 7.2, "EUR": 7.8}, in tenths
rates == (<<"U", "S", "D">> :> 72) @@ (<<"E", "U", "R">> :> 78)

\* dict.get(key, default)
dict_get(d, key, default) == IF key \in DOMAIN d THEN d[key] ELSE default

\* the lookup without upper-casing its argument
get_exchange_rate_exact(currency) ==
  [raised |-> FALSE, rate |-> dict_get(rates, currency, 10)]

\* get_exchange_rate(currency): rates.get(currency.upper(), 1.0)
get_exchange_rate(currency) ==
  [raised |-> FALSE, rate |-> dict_get(rates, upper(currency), 10)]

InternationalFee == "Possible 3% international transaction fee"

StandardFee == "Standard transaction fee"

\* the comparison written as >= instead of >
get_fee_description_ge(amount) ==
  IF amount >= 1000 THEN InternationalFee ELSE StandardFee

\* get_fee_description(amount)
get_fee_description(amount) ==
  IF amount > 1000 THEN InternationalFee ELSE StandardFee

\* FastMCP.tool(): a name is registered once; a second registration of the
\* same name leaves the first in place.
Register(reg, name) == IF name \in Range(reg) THEN reg ELSE Append(reg, name)

\* the registry once the server module is imported (the two decorators)
ServerImport ==
  Register(Register(<<>>, "get_exchange_rate"), "get_fee_description")

Currencies == UNION {[1..n -> Chars] : n \in 0..MaxCurLen}

Amounts == ((1000 - AmountSpan)..(1000 + AmountSpan)) \cup {0, 150, 3000}

NoCall ==
  [tool |-> "none", state |-> "none", currency |-> <<>>, amount |-> 0,
   raised |-> FALSE, rate |-> 0, text |-> ""]

RateRequest(c) == [NoCall EXCEPT !.tool = "get_exchange_rate",
                                 !.state = "pending", !.currency = c]

FeeRequest(a) == [NoCall EXCEPT !.tool = "get_fee_description",
                                !.state = "pending", !.amount = a]

\* the requests of the end-to-end scenarios, sent after the first one
ScenarioRequests ==
  {RateRequest(<<"u", "s", "d">>), RateRequest(<<"e", "u", "r">>),
   RateRequest(<<"g", "b", "p">>), FeeRequest(3000), FeeRequest(150), FeeRequest(1000)}

InitServerState ==
  /\ server = "running"
  /\ registry = ServerImport
  /\ call \in {RateRequest(c) : c \in Currencies} \cup {FeeRequest(a) : a \in Amounts}
  /\ served = 0

\* the server answers a get_exchange_rate request
ServeExchangeRate ==
  /\ server = "running"
  /\ call.state = "pending"
  /\ call.tool = "get_exchange_rate"
  /\ call.tool \in Range(registry)
  /\ LET r == get_exchange_rate(call.currency)
     IN  call' = [call EXCEPT !.state = "replied", !.raised = r.raised,
                              !.rate = r.rate]
  /\ served' = served + 1
  /\ UNCHANGED <<clientVars, server, registry>>

\* the server answers a get_fee_description request
ServeFeeDescription ==
  /\ server = "running"
  /\ call.state = "pending"
  /\ call.tool = "get_fee_description"
  /\ call.tool \in Range(registry)
  /\ call' = [call EXCEPT !.state = "replied",
                          !.text = get_fee_description(call.amount)]
  /\ served' = served + 1
  /\ UNCHANGED <<clientVars, server, registry>>

\* mcp.run(transport="stdio"): the next request arrives once the previous
\* one is answered
Receive(req) ==
  /\ server = "running"
  /\ call.state = "replied"
  /\ served < MaxCalls
  /\ call' = req
  /\ UNCHANGED <<clientVars, server, registry, served>>

(***************************************************************************)
(* Reconciliation Client: src/compare.py                                   *)
(***************************************************************************)
None == "None"

NoExc == "none"

Console == "console"

LoggerSink == "logger"

NoLogger == [terminal |-> None, log |-> None]

NoAgent == [name |-> None, tools |-> <<>>]

\* os.getenv yields None for an unset variable, else its value
ApiKeys == {None, "", "sk-key"}

\* Python truth of a str-or-None value: None and "" are false
Truthy(v) == v # None /\ v # ""

\* seconds between two launches of the client
Delays == {1, 59, 60}

SecondsPerMinute == 60

\* datetime.now().strftime("%Y%m%d_%H%M"): the time cut to the minute
strftime(t) == t \div SecondsPerMinute

\* f"comparison_log_{timestamp}.txt"
log_filename(timestamp) ==
  [prefix |-> "comparison_log_", stamp |-> timestamp, suffix |-> ".txt"]

StartBanner == "--- start reconciliation ---"

ConclusionBanner == "--- AI conclusion ---"

SavedNotice == "[notice] log saved"

VerboseMessages == {"> Pandas Output"}

Responses == {"report A", "report B"}

DiscoveryErrors == {"ConnectionError"}

RunErrors == {"ToolError", "ModelError"}

\* open(filename, "w"): creates the file or truncates the one of that name
open_w(fs, filename) ==
  (filename :> [open |-> TRUE, content |-> <<>>,
                opens |-> IF filename \in DOMAIN fs
                          THEN fs[filename].opens + 1 ELSE 1]) @@ fs

\* file.close()
close(fs, filename) == [fs EXCEPT ![filename].open = FALSE]

\* Logger.__init__(filename)
Logger_init(stdout, fs, filename) ==
  [self |-> [terminal |-> stdout, log |-> filename],
   files |-> open_w(fs, filename)]

\* a tee that forgets the file
Logger_write_terminal_only(self, term, fs, message) ==
  [terminal |-> Append(term, message), files |-> fs]

\* Logger.write(message): the terminal first, then the log
Logger_write(self, term, fs, message) ==
  [terminal |-> Append(term, message),
   files |-> [fs EXCEPT ![self.log].content = Append(@, message)]]

\* sys.stdout.write(message), whatever the sink is
stdout_write(out, self, term, fs, message) ==
  IF out = LoggerSink
  THEN Logger_write(self, term, fs, message)
  ELSE [terminal |-> Append(term, message), files |-> fs]

\* mcp_tools + local_tools without the local tools
all_tools_remote_only(remote, local) == remote

\* all_tools = mcp_tools + local_tools
all_tools(remote, local) == remote \o local

InitClientState ==
  /\ pc = "off"
  /\ api_key = None
  /\ clock = 0
  /\ runs = 0
  /\ sys_stdout = Console
  /\ logger = NoLogger
  /\ files = <<>>
  /\ terminal = <<>>
  /\ stderr = <<>>
  /\ exc = NoExc
  /\ mcp_tools = <<>>
  /\ local_tools = <<>>
  /\ agent = NoAgent
  /\ response = None
  /\ verbose_n = 0
  /\ trace = <<>>
  /\ runlog = <<>>

\* `python compare.py`: a new process, delay seconds after the previous one,
\* reads the environment (load_dotenv, os.getenv)
Launch(key, delay) ==
  /\ pc = "off"
  /\ runs < MaxRuns
  /\ runs' = runs + 1
  /\ clock' = clock + delay
  /\ api_key' = key
  /\ pc' = "startup"
  /\ sys_stdout' = Console
  /\ logger' = NoLogger
  /\ terminal' = <<>>
  /\ stderr' = <<>>
  /\ exc' = NoExc
  /\ server' = "absent"
  /\ registry' = <<>>
  /\ mcp_tools' = <<>>
  /\ local_tools' = <<>>
  /\ agent' = NoAgent
  /\ response' = None
  /\ verbose_n' = 0
  /\ trace' = <<>>
  /\ UNCHANGED <<files, runlog, call, served>>

\* a start-up that goes on to main() whatever the credential is
Startup_unchecked ==
  /\ pc = "startup"
  /\ pc' = "main"
  /\ UNCHANGED <<api_key, clock, runs, sys_stdout, logger, files, terminal,
                 stderr, exc, server, registry, mcp_tools, local_tools, agent,
                 response, verbose_n, trace, runlog, call, served>>

\* module level: the credential check, then the DeepSeek client
Startup ==
  /\ pc = "startup"
  /\ IF ~Truthy(api_key)
     THEN /\ exc' = "ValueError"
          /\ pc' = "terminating"
     ELSE /\ exc' = exc
          /\ pc' = "main"
  /\ UNCHANGED <<api_key, clock, runs, sys_stdout, logger, files, terminal,
                 stderr, server, registry, mcp_tools, local_tools, agent,
                 response, verbose_n, trace, runlog, call, served>>

\* asyncio.run(main()) up to the try: the file name from the clock, the
\* Logger, the replacement of sys.stdout
MainAcquire ==
  /\ pc = "main"
  /\ LET timestamp == strftime(clock)
         made == Logger_init(sys_stdout, files, log_filename(timestamp))
     IN  /\ logger' = made.self
         /\ files' = made.files
  /\ sys_stdout' = LoggerSink
  /\ trace' = trace \o <<"open", "replace">>
  /\ pc' = "discover"
  /\ UNCHANGED <<api_key, clock, runs, terminal, stderr, exc, server, registry,
                 mcp_tools, local_tools, agent, response, verbose_n, runlog,
                 call, served>>

\* a discovery that is not awaited: the client goes on with no remote tool
DiscoverBegin_not_awaited ==
  /\ pc = "discover"
  /\ server' = "running"
  /\ registry' = ServerImport
  /\ trace' = trace \o <<"spawn", "discover_begin">>
  /\ pc' = "build_local"
  /\ UNCHANGED <<api_key, clock, runs, sys_stdout, logger, files, terminal,
                 stderr, exc, mcp_tools, local_tools, agent, response,
                 verbose_n, runlog, call, served>>

\* BasicMCPClient, McpToolSpec and the call of to_tool_list_async(): the
\* server subprocess is started (or cannot be) and the client suspends
DiscoverBegin ==
  /\ pc = "discover"
  /\ \E started \in BOOLEAN :
       IF started
       THEN /\ server' = "running"
            /\ registry' = ServerImport
            /\ trace' = trace \o <<"spawn", "discover_begin">>
       ELSE /\ UNCHANGED <<server, registry>>
            /\ trace' = Append(trace, "discover_begin")
  /\ pc' = "discovering"
  /\ UNCHANGED <<api_key, clock, runs, sys_stdout, logger, files, terminal,
                 stderr, exc, mcp_tools, local_tools, agent, response,
                 verbose_n, runlog, call, served>>

\* the await resolves: one handle per tool the server lists
DiscoverDone ==
  /\ pc = "discovering"
  /\ server = "running"
  /\ mcp_tools' = registry
  /\ trace' = Append(trace, "discover_done")
  /\ pc' = "build_local"
  /\ UNCHANGED <<api_key, clock, runs, sys_stdout, logger, files, terminal,
                 stderr, exc, server, registry, local_tools, agent, response,
                 verbose_n, runlog, call, served>>

\* a failed discovery that is swallowed: the client goes on with no remote tool
DiscoverFail_swallowed(error) ==
  /\ pc = "discovering"
  /\ error \in DiscoveryErrors
  /\ trace' = Append(trace, "discover_failed")
  /\ pc' = "build_local"
  /\ UNCHANGED <<api_key, clock, runs, sys_stdout, logger, files, terminal,
                 stderr, exc, server, registry, mcp_tools, local_tools, agent,
                 response, verbose_n, runlog, call, served>>

\* the await raises: the server did not start or did not answer
DiscoverFail(error) ==
  /\ pc = "discovering"
  /\ error \in DiscoveryErrors
  /\ exc' = error
  /\ trace' = Append(trace, "discover_failed")
  /\ pc' = "finally"
  /\ UNCHANGED <<api_key, clock, runs, sys_stdout, logger, files, terminal,
                 stderr, server, registry, mcp_tools, local_tools, agent,
                 response, verbose_n, runlog, call, served>>

\* the two data frames, their query engines and the two QueryEngineTools
BuildLocalTools ==
  /\ pc = "build_local"
  /\ local_tools' = <<"internal_records", "bank_statement">>
  /\ trace' = Append(trace, "build_local")
  /\ pc' = "assemble"
  /\ UNCHANGED <<api_key, clock, runs, sys_stdout, logger, files, terminal,
                 stderr, exc, server, registry, mcp_tools, agent, response,
                 verbose_n, runlog, call, served>>

\* all_tools and FunctionAgent(name="FinanceAgent", tools=all_tools, ...)
AssembleAgent ==
  /\ pc = "assemble"
  /\ agent' = [name |-> "FinanceAgent", tools |-> all_tools(mcp_tools, local_tools)]
  /\ trace' = Append(trace, "assemble")
  /\ pc' = "print_start"
  /\ UNCHANGED <<api_key, clock, runs, sys_stdout, logger, files, terminal,
                 stderr, exc, server, registry, mcp_tools, local_tools,
                 response, verbose_n, runlog, call, served>>

\* print(message) at position `at`: one write to sys.stdout.  The write to
\* the console is the first statement of Logger.write; when it raises (the
\* console cannot take the text), nothing was written and the exception
\* leaves the try block.
PrintStep(at, message, event, next) ==
  /\ pc = at
  /\ \E ok \in BOOLEAN :
       IF ok
       THEN LET w == stdout_write(sys_stdout, logger, terminal, files, message)
            IN  /\ terminal' = w.terminal
                /\ files' = w.files
                /\ trace' = Append(trace, event)
                /\ pc' = next
                /\ exc' = exc
       ELSE /\ exc' = "PrintError"
            /\ pc' = "finally"
            /\ UNCHANGED <<terminal, files, trace>>
  /\ UNCHANGED <<api_key, clock, runs, sys_stdout, logger, stderr, server,
                 registry, mcp_tools, local_tools, agent, response, verbose_n,
                 runlog, call, served>>

\* print("\n--- ... ---") before the run
PrintStart == PrintStep("print_start", StartBanner, "print_start", "run_issue")

\* handler = agent.run(request): the single run request is issued
RunIssue ==
  /\ pc = "run_issue"
  /\ agent # NoAgent
  /\ trace' = Append(trace, "run_issued")
  /\ pc' = "await"
  /\ UNCHANGED <<api_key, clock, runs, sys_stdout, logger, files, terminal,
                 stderr, exc, server, registry, mcp_tools, local_tools, agent,
                 response, verbose_n, runlog, call, served>>

\* while the request is awaited, the agent loop and the query engines
\* (verbose=True) print through sys.stdout
AgentVerbose(message) ==
  /\ pc = "await"
  /\ verbose_n < MaxVerbose
  /\ message \in VerboseMessages
  /\ LET w == stdout_write(sys_stdout, logger, terminal, files, message)
     IN  /\ terminal' = w.terminal
         /\ files' = w.files
  /\ verbose_n' = verbose_n + 1
  /\ UNCHANGED <<pc, api_key, clock, runs, sys_stdout, logger, stderr, exc,
                 server, registry, mcp_tools, local_tools, agent, response,
                 trace, runlog, call, served>>

\* response = await handler: the request resolves to the final answer
RunResolve(answer) ==
  /\ pc = "await"
  /\ answer \in Responses
  /\ response' = answer
  /\ trace' = Append(trace, "run_resolved")
  /\ pc' = "print_conclusion"
  /\ UNCHANGED <<api_key, clock, runs, sys_stdout, logger, files, terminal,
                 stderr, exc, server, registry, mcp_tools, local_tools, agent,
                 verbose_n, runlog, call, served>>

\* await handler raises: a tool invocation or the model backend failed
RunFail(error) ==
  /\ pc = "await"
  /\ error \in RunErrors
  /\ exc' = error
  /\ trace' = Append(trace, "run_failed")
  /\ pc' = "finally"
  /\ UNCHANGED <<api_key, clock, runs, sys_stdout, logger, files, terminal,
                 stderr, server, registry, mcp_tools, local_tools, agent,
                 response, verbose_n, runlog, call, served>>

\* print("\n--- ... ---") after the run
PrintConclusion ==
  PrintStep("print_conclusion", ConclusionBanner, "print_conclusion",
            "print_response")

\* print(response): the final answer
PrintResponse ==
  PrintStep("print_response", response, "answer_printed", "print_notice")

\* print(f"... {log_filename}")
PrintNotice == PrintStep("print_notice", SavedNotice, "print_notice", "finally")

\* a clean-up placed after the try block instead of in a finally clause: it
\* is skipped when an exception is in flight
MainFinally_normal_flow_only ==
  /\ pc = "finally"
  /\ IF sys_stdout = LoggerSink /\ exc = NoExc
     THEN /\ files' = close(files, logger.log)
          /\ sys_stdout' = logger.terminal
          /\ trace' = trace \o <<"close", "restore">>
          /\ runlog' = Append(runlog, [file |-> logger.log,
                                       transcript |-> files[logger.log].content])
     ELSE UNCHANGED <<files, sys_stdout, trace, runlog>>
  /\ pc' = "terminating"
  /\ UNCHANGED <<api_key, clock, runs, logger, terminal, stderr, exc, server,
                 registry, mcp_tools, local_tools, agent, response, verbose_n,
                 call, served>>

\* finally: if sys.stdout is the Logger, close its log and restore its
\* terminal; then main() returns, or raises the exception in flight
MainFinally ==
  /\ pc = "finally"
  /\ IF sys_stdout = LoggerSink
     THEN /\ files' = close(files, logger.log)
          /\ sys_stdout' = logger.terminal
          /\ trace' = trace \o <<"close", "restore">>
          /\ runlog' = Append(runlog, [file |-> logger.log,
                                       transcript |-> files[logger.log].content])
     ELSE UNCHANGED <<files, sys_stdout, trace, runlog>>
  /\ pc' = "terminating"
  /\ UNCHANGED <<api_key, clock, runs, logger, terminal, stderr, exc, server,
                 registry, mcp_tools, local_tools, agent, response, verbose_n,
                 call, served>>

\* the process ends: an uncaught exception is printed by the interpreter on
\* the error stream; the server subprocess ends with its parent
ProcessExit ==
  /\ pc = "terminating"
  /\ stderr' = IF exc # NoExc THEN Append(stderr, exc) ELSE stderr
  /\ server' = "absent"
  /\ pc' = "off"
  /\ UNCHANGED <<api_key, clock, runs, sys_stdout, logger, files, terminal,
                 exc, registry, mcp_tools, local_tools, agent, response,
                 verbose_n, trace, runlog, call, served>>

Init ==
  /\ InitClientState
  /\ server = "absent"
  /\ registry = <<>>
  /\ call = NoCall
  /\ served = 0

Next ==
  \/ \E key \in ApiKeys, delay \in Delays : Launch(key, delay)
  \/ Startup
  \/ MainAcquire
  \/ DiscoverBegin
  \/ DiscoverDone
  \/ \E error \in DiscoveryErrors : DiscoverFail(error)
  \/ BuildLocalTools
  \/ AssembleAgent
  \/ PrintStart
  \/ RunIssue
  \/ \E message \in VerboseMessages : AgentVerbose(message)
  \/ \E answer \in Responses : RunResolve(answer)
  \/ \E error \in RunErrors : RunFail(error)
  \/ PrintConclusion
  \/ PrintResponse
  \/ PrintNotice
  \/ MainFinally
  \/ ProcessExit

\* the client: processes launched one after the other
Spec == Init /\ [][Next]_vars

InitServer == InitClientState /\ InitServerState

NextServer ==
  \/ ServeExchangeRate
  \/ ServeFeeDescription
  \/ \E req \in ScenarioRequests : Receive(req)

\* the Tool Server answering requests
SpecServer == InitServer /\ [][NextServer]_vars

(***************************************************************************)
(* Claims.                                                                 *)
(***************************************************************************)
Done == pc \in {"terminating", "off"}

Captured == "replace" \in Range(trace)

\* every occurrence of b in the trace has an occurrence of a before it
Before(a, b) ==
  \A j \in DOMAIN trace :
    trace[j] = b => \E i \in 1..(j - 1) : trace[i] = a

LowerOf(c) ==
  CASE c = "U" -> "u"
    [] c = "S" -> "s"
    [] c = "D" -> "d"
    [] c = "E" -> "e"
    [] c = "R" -> "r"
    [] OTHER -> c

\* s is key, each letter in either case
SpelledAs(s, key) ==
  /\ Len(s) = Len(key)
  /\ \A i \in 1..Len(key) : s[i] \in {key[i], LowerOf(key[i])}

\* C1: an answered get_exchange_rate request never raised; its rate is 7.2
\* when the currency spells USD in any letter case, 7.8 when it spells EUR,
\* and exactly 1.0 for every other string, whatever was served before.
C1_ExchangeRate ==
  (call.tool = "get_exchange_rate" /\ call.state = "replied") =>
    /\ ~call.raised
    /\ SpelledAs(call.currency, <<"U", "S", "D">>) => call.rate = 72
    /\ SpelledAs(call.currency, <<"E", "U", "R">>) => call.rate = 78
    /\ (~SpelledAs(call.currency, <<"U", "S", "D">>)
        /\ ~SpelledAs(call.currency, <<"E", "U", "R">>)) => call.rate = 10

C1_Witness ==
  /\ call.state = "replied"
  /\ call.currency = <<"e", "U", "r">>
  /\ call.rate = 78

\* C2: an answered get_fee_description request carries the international-fee
\* message when the amount is strictly greater than 1000 and the standard-fee
\* message when it is less than or equal to 1000, 1000 included.
C2_FeeDescription ==
  (call.tool = "get_fee_description" /\ call.state = "replied") =>
    /\ call.amount > 1000 => call.text = "Possible 3% international transaction fee"
    /\ call.amount <= 1000 => call.text = "Standard transaction fee"

C2_Witness ==
  /\ call.tool = "get_fee_description"
  /\ call.state = "replied"
  /\ call.amount = 1000
  /\ call.text = "Standard transaction fee"

\* C3: once main() has returned or raised after replacing the output sink,
\* the sink is the original destination again, it was restored exactly once,
\* the log file was closed exactly once and is closed, and the file holds
\* exactly what it held when it was closed.
C3_Release ==
  (Done /\ Captured) =>
    /\ sys_stdout = Console
    /\ Count(trace, "restore") = 1
    /\ Count(trace, "close") = 1
    /\ ~files[logger.log].open
    /\ runlog # <<>>
    /\ runlog[Len(runlog)].file = logger.log
    /\ files[logger.log].content = runlog[Len(runlog)].transcript

C3_Witness ==
  /\ pc = "off"
  /\ Captured
  /\ exc = "PrintError"
  /\ sys_stdout = Console

\* C4: from the moment the capture is active, the messages in the log file
\* are the messages the original destination received, in the same order.
C4_Tee == Captured => files[logger.log].content = terminal

C4_Witness ==
  /\ sys_stdout = LoggerSink
  /\ Len(terminal) >= 3
  /\ terminal[1] # terminal[2]
  /\ files[logger.log].content = terminal

\* C5: when a run that had activated the capture ends in a failure, the
\* failure printed to the console is also in that run's log file.
C5_FailureRecorded ==
  (pc = "off" /\ Captured /\ exc # NoExc) =>
    /\ exc \in Range(stderr)
    /\ exc \in Range(files[logger.log].content)

\* C6: a process started without the credential (unset or empty) fails with
\* the configuration error before any other work: the sink is never
\* replaced, no file is opened, no server is started, no discovery is begun,
\* no agent is built and no request is issued.
C6_MissingCredential ==
  (runs > 0 /\ ~Truthy(api_key) /\ pc # "startup") =>
    /\ Done
    /\ exc = "ValueError"
    /\ pc = "off" => stderr = <<"ValueError">>
    /\ sys_stdout = Console
    /\ logger = NoLogger
    /\ trace = <<>>
    /\ server = "absent"
    /\ mcp_tools = <<>>
    /\ agent = NoAgent
    /\ terminal = <<>>

C6_Witness ==
  /\ pc = "off"
  /\ runs = 2
  /\ api_key = ""
  /\ exc = "ValueError"
  /\ DOMAIN files # {}

\* C7: in every run the capture is acquired before discovery begins,
\* discovery completes before the agent is assembled, the agent is assembled
\* before the run request is issued, the request is issued before it
\* resolves, and the final answer is printed only after it has resolved.
C7_Order ==
  /\ Before("replace", "discover_begin")
  /\ Before("discover_begin", "discover_done")
  /\ Before("discover_done", "assemble")
  /\ Before("assemble", "run_issued")
  /\ Before("run_issued", "run_resolved")
  /\ Before("run_resolved", "answer_printed")

C7_Witness ==
  /\ "answer_printed" \in Range(trace)
  /\ pc = "off"

\* C8: discovery is begun at most once and the run request is issued at most
\* once per run, exactly once when main() returns normally; after a failed
\* discovery no agent is assembled and no request is issued; after a failed
\* request no final answer is printed; and the failure is what main() raises.
C8_NoRetry ==
  /\ Count(trace, "discover_begin") <= 1
  /\ Count(trace, "run_issued") <= 1
  /\ (Done /\ Captured /\ exc = NoExc) => Count(trace, "run_issued") = 1
  /\ "discover_failed" \in Range(trace) =>
       /\ "assemble" \notin Range(trace)
       /\ agent = NoAgent
       /\ "run_issued" \notin Range(trace)
       /\ exc \in DiscoveryErrors
  /\ "run_failed" \in Range(trace) =>
       /\ "answer_printed" \notin Range(trace)
       /\ response = None
       /\ exc \in RunErrors
  /\ (pc = "off" /\ exc # NoExc) => stderr = <<exc>>

C8_Witness ==
  /\ pc = "off"
  /\ "run_failed" \in Range(trace)
  /\ exc = "ToolError"

\* C9: every finished run's log file was opened once and still holds that
\* run's transcript, and no two runs share a log file.
C9_OwnLogPerRun ==
  /\ \A i \in DOMAIN runlog :
       /\ files[runlog[i].file].opens = 1
       /\ files[runlog[i].file].content = runlog[i].transcript
  /\ \A i, j \in DOMAIN runlog : i # j => runlog[i].file # runlog[j].file

\* C10: the agent's tools are the discovered handles and the two tabular
\* handles, each once and nothing else, and the discovered names are
\* get_exchange_rate and get_fee_description.
C10_ToolSet ==
  agent # NoAgent =>
    /\ Range(agent.tools) =
         Range(mcp_tools) \cup {"internal_records", "bank_statement"}
    /\ Len(agent.tools) = Cardinality(Range(agent.tools))
    /\ Len(agent.tools) = Len(mcp_tools) + 2
    /\ Range(mcp_tools) = {"get_exchange_rate", "get_fee_description"}

C10_Witness ==
  /\ agent # NoAgent
  /\ Len(agent.tools) = 4
  /\ pc = "await"
====
